---- MODULE Spec2Model ----
(***************************************************************************)
(* Model of owfmodules.avrisp.eeprom_erase (EepromErase): one call of      *)
(* run(), its process() and erase() bodies and the wait_poll_eeprom()      *)
(* polling loop, as a state machine with one action per statement that     *)
(* touches the transport, the clock or the control flow.                   *)
(*                                                                         *)
(* Time is counted in milliseconds.  Bytes are integers 0..255 and frames  *)
(* are sequences of bytes.  `calls' is the log of the calls the module     *)
(* makes on the SPI/GPIO transport and on time.sleep, in program order.    *)
(***************************************************************************)
EXTENDS Integers, Sequences, FiniteSets, TLC

VARIABLES
    pc,            \* position in run()/process()/erase()/wait_poll_eeprom()
    return_value,  \* run()'s parameter
    owf_serial,    \* TRUE when connect() found the hardware
    device,        \* result of get_device_id(): [found, eeprom_size]
    reset,         \* physical level of the reset line (0 asserted, 1 deasserted)
    it,            \* number of items the range() iterator of the sweep has produced
    addr,          \* loop variable of the sweep
    now,           \* time.time(), in ms
    timeout,       \* wait_poll_eeprom's deadline, in ms
    read_byte,     \* wait_poll_eeprom's last received byte
    calls,         \* log of transport / sleep calls
    logger,        \* log of self.logger.handle calls
    status,        \* value process() returns: "None", "True", "False"
    exc,           \* exception in flight / caught by run(): "none" or its type
    ret,           \* value run() returned to its caller ("unset" before it returns)
    prev,          \* outcome of the previous run() on this module object
    poll           \* the current wait_poll_eeprom call: time.time() at its entry
                   \* and the number of times it has evaluated line 64

vars == <<pc, return_value, owf_serial, device, reset, it, addr, now, timeout,
          read_byte, calls, logger, status, exc, ret, prev, poll>>

(***************************************************************************)
(* Bounds of the model                                                     *)
(***************************************************************************)
\* largest eeprom_size a device profile reports in the model
MaxSize == 3

\* durations one SPI transmit or receive may take, in ms
LatencyMs == {2000, 5000}

\* bytes a read-back may return: the fill byte and one other value
ReadBytes == {0, 255}

(***************************************************************************)
(* Program constants                                                       *)
(***************************************************************************)
read_cmd == 160

write_cmd == 192

enable_mem_access_cmd == <<172, 83, 0, 0>>

FillByte == 255

PollTimeoutMs == 10000

SettleDelayMs == 500

\* largest value struct.pack(">H", v) accepts
MaxH == 65535

(***************************************************************************)
(* Pure functions                                                          *)
(***************************************************************************)
\* struct.pack(">H", v): two bytes, most significant first
PackH(v) == <<v \div 256, v % 256>>

\* struct.pack(">H", v) raises struct.error outside 0..65535
CanPackH(v) == v \in 0..MaxH

\* int(s, 16) on a string of hexadecimal digits, given as digit values
RECURSIVE HexToInt(_)
HexToInt(s) ==
    IF s = <<>> THEN 0
    ELSE HexToInt(SubSeq(s, 1, Len(s) - 1)) * 16 + s[Len(s)]

\* device["eeprom_size"] strings of the model: "00", "01", ...
EepromSizes == {<<0, d>> : d \in 0..MaxSize}

NoDevice == [found |-> FALSE, eeprom_size |-> <<>>]

\* device["eeprom_size"] strings beyond the 16-bit address field:
\* "10000" (65536, the largest size whose addresses all fit) and "10001"
WideSizes == {<<1, 0, 0, 0, 0>>, <<1, 0, 0, 0, 1>>}

Devices ==
    {[found |-> TRUE, eeprom_size |-> s] : s \in EepromSizes \cup {<<1, 0, 0, 0, 1>>}}

\* the sweep of a wide device is explored for its first MaxSize + 1 addresses
\* and again from address WideStart on, not in between
WideStart == MaxH

SweepExplored(i) == i <= MaxSize \/ i >= WideStart

\* mutation of RangeItem: the sweep steps by two
RangeItem_StepTwo(i) == 0 + i * 2

\* range(0, int(device["eeprom_size"], 16), 1)[i]
RangeItem(i) == 0 + i * 1

RangeLen == HexToInt(device.eeprom_size)

\* frames of the wire protocol
WriteFrame(a) == <<write_cmd>> \o PackH(a) \o <<FillByte>>

\* mutation of ReadFrame: the read-back asks for the next address
ReadFrame_NextAddr(a) == <<read_cmd>> \o PackH(a + 1)

ReadFrame(a) == <<read_cmd>> \o PackH(a)

\* one entry of the call log
Ev(op, val, frame, ok) == [op |-> op, val |-> val, frame |-> frame, ok |-> ok]

\* one entry of the logger
Msg(level, text, a) == [level |-> level, text |-> text, addr |-> a]

\* an exception leaves process() and reaches run()'s handlers
Raise(e) == pc' = "except" /\ exc' = e

\* no wait_poll_eeprom call has been made yet
NoPoll == [entry |-> 0, checks |-> 0]

(***************************************************************************)
(* Initial state: a constructed module, run() about to be called           *)
(***************************************************************************)
Init ==
    /\ pc = "run"
    /\ return_value \in BOOLEAN
    /\ owf_serial = FALSE
    /\ device = NoDevice
    /\ reset \in {0, 1}
    /\ it = 0
    /\ addr = 0
    /\ now = 0
    /\ timeout = 0
    /\ read_byte = 0
    /\ calls = <<>>
    /\ logger = <<>>
    /\ status = "None"
    /\ exc = "none"
    /\ ret = "unset"
    /\ prev = [kind |-> "none", ret |-> "unset"]
    /\ poll = NoPoll

(***************************************************************************)
(* run(), lines 127-129                                                    *)
(***************************************************************************)
Connect ==
    /\ pc = "run"
    /\ \E found \in BOOLEAN :
          /\ owf_serial' = found
          /\ IF found
             THEN pc' = "process" /\ ret' = ret
             ELSE pc' = "done" /\ ret' = "None"
    /\ UNCHANGED <<return_value, device, reset, it, addr, now, timeout,
                   read_byte, calls, logger, status, exc, prev, poll>>

(***************************************************************************)
(* process(), lines 97-103                                                 *)
(***************************************************************************)
\* mutation of GetDeviceId: the test `device is None' is missing
GetDeviceId_NoNoneCheck ==
    /\ pc = "process"
    /\ \E d \in {NoDevice} \cup Devices :
          /\ device' = d
          /\ pc' = "configure" /\ status' = status
    /\ UNCHANGED <<return_value, owf_serial, reset, it, addr, now, timeout,
                   read_byte, calls, logger, exc, ret, prev, poll>>

GetDeviceId ==
    /\ pc = "process"
    /\ \E d \in {NoDevice} \cup Devices :
          /\ device' = d
          /\ IF d.found
             THEN pc' = "configure" /\ status' = status
             ELSE pc' = "return" /\ status' = "None"
    /\ UNCHANGED <<return_value, owf_serial, reset, it, addr, now, timeout,
                   read_byte, calls, logger, exc, ret, prev, poll>>

\* lines 105-109
Configure ==
    /\ pc = "configure"
    /\ \E ok \in BOOLEAN :
          /\ calls' = Append(calls, Ev("configure", -1, <<>>, ok))
          /\ IF ok THEN pc' = "direction" /\ exc' = exc
                   ELSE Raise("TransportError")
    /\ UNCHANGED <<return_value, owf_serial, device, reset, it, addr, now,
                   timeout, read_byte, logger, status, ret, prev, poll>>

\* line 111
Direction ==
    /\ pc = "direction"
    /\ \E ok \in BOOLEAN :
          /\ calls' = Append(calls, Ev("direction", -1, <<>>, ok))
          /\ IF ok THEN pc' = "idle" /\ exc' = exc
                   ELSE Raise("TransportError")
    /\ UNCHANGED <<return_value, owf_serial, device, reset, it, addr, now,
                   timeout, read_byte, logger, status, ret, prev, poll>>

\* reset.status = level: the line takes the level when the call succeeds;
\* a call that fails may or may not have driven the line
SetStatus(level, ok) ==
    /\ calls' = Append(calls, Ev("status", level, <<>>, ok))
    /\ IF ok THEN reset' = level ELSE reset' \in {reset, level}

\* line 114
SetIdle ==
    /\ pc = "idle"
    /\ \E ok \in BOOLEAN :
          /\ SetStatus(1, ok)
          /\ IF ok THEN pc' = "erase" /\ exc' = exc
                   ELSE Raise("TransportError")
    /\ UNCHANGED <<return_value, owf_serial, device, it, addr, now,
                   timeout, read_byte, logger, status, ret, prev, poll>>

(***************************************************************************)
(* erase(), lines 67-94                                                    *)
(***************************************************************************)
\* mutation of DriveResetLow: the line is driven to the wrong level
DriveResetLow_DrivesHigh ==
    /\ pc = "erase"
    /\ \E ok \in BOOLEAN :
          /\ SetStatus(1, ok)
          /\ IF ok
             THEN /\ pc' = "enable" /\ exc' = exc
                  /\ logger' = Append(logger, Msg("INFO", "enabling", -1))
             ELSE Raise("TransportError") /\ logger' = logger
    /\ UNCHANGED <<return_value, owf_serial, device, it, addr, now,
                   timeout, read_byte, status, ret, prev, poll>>

\* lines 72-73
DriveResetLow ==
    /\ pc = "erase"
    /\ \E ok \in BOOLEAN :
          /\ SetStatus(0, ok)
          /\ IF ok
             THEN /\ pc' = "enable" /\ exc' = exc
                  /\ logger' = Append(logger, Msg("INFO", "enabling", -1))
             ELSE Raise("TransportError") /\ logger' = logger
    /\ UNCHANGED <<return_value, owf_serial, device, it, addr, now,
                   timeout, read_byte, status, ret, prev, poll>>

\* spi_interface.transmit(frame): takes some time, may fail
Transmit(frame, ok) ==
    /\ calls' = Append(calls, Ev("transmit", -1, frame, ok))
    /\ \E d \in LatencyMs : now' = now + d

\* line 76
EnableMemAccess ==
    /\ pc = "enable"
    /\ \E ok \in BOOLEAN :
          /\ Transmit(enable_mem_access_cmd, ok)
          /\ IF ok THEN pc' = "sleep" /\ exc' = exc
                   ELSE Raise("TransportError")
    /\ UNCHANGED <<return_value, owf_serial, device, reset, it, addr,
                   timeout, read_byte, logger, status, ret, prev, poll>>

\* mutation of Settle: the settle delay is missing
Settle_NoDelay ==
    /\ pc = "sleep"
    /\ logger' = Append(logger, Msg("INFO", "erasing", -1))
    /\ pc' = "loop"
    /\ UNCHANGED <<return_value, owf_serial, device, reset, it, addr, now,
                   timeout, read_byte, calls, status, exc, ret, prev, poll>>

\* lines 77-80
Settle ==
    /\ pc = "sleep"
    /\ calls' = Append(calls, Ev("sleep", SettleDelayMs, <<>>, TRUE))
    /\ now' = now + SettleDelayMs
    /\ logger' = Append(logger, Msg("INFO", "erasing", -1))
    /\ pc' = "loop"
    /\ UNCHANGED <<return_value, owf_serial, device, reset, it, addr,
                   timeout, read_byte, status, exc, ret, prev, poll>>

\* mutation of LoopNext: the range has one item too many
LoopNext_OneTooMany ==
    /\ pc = "loop"
    /\ SweepExplored(it)
    /\ IF it <= RangeLen
       THEN addr' = RangeItem(it) /\ it' = it + 1 /\ pc' = "write"
       ELSE addr' = addr /\ it' = it /\ pc' = "release"
    /\ UNCHANGED <<return_value, owf_serial, device, reset, now, timeout,
                   read_byte, calls, logger, status, exc, ret, prev, poll>>

\* line 81: the for statement takes the next item of the range, or ends
LoopNext ==
    /\ pc = "loop"
    /\ SweepExplored(it)
    /\ IF it < RangeLen
       THEN addr' = RangeItem(it) /\ it' = it + 1 /\ pc' = "write"
       ELSE addr' = addr /\ it' = it /\ pc' = "release"
    /\ UNCHANGED <<return_value, owf_serial, device, reset, now, timeout,
                   read_byte, calls, logger, status, exc, ret, prev, poll>>

\* mutation of WriteByte: the address is cut to 16 bits instead of checked
WriteByte_WrapsAddress ==
    /\ pc = "write"
    /\ \E ok \in BOOLEAN :
          /\ Transmit(WriteFrame(addr % (MaxH + 1)), ok)
          /\ IF ok THEN pc' = "poll_entry" /\ exc' = exc
                   ELSE Raise("TransportError")
    /\ UNCHANGED <<return_value, owf_serial, device, reset, it, addr,
                   timeout, read_byte, logger, status, ret, prev, poll>>

\* line 84: struct.pack raises before anything is transmitted
WriteByte ==
    /\ pc = "write"
    /\ IF CanPackH(addr)
       THEN \E ok \in BOOLEAN :
               /\ Transmit(WriteFrame(addr), ok)
               /\ IF ok THEN pc' = "poll_entry" /\ exc' = exc
                        ELSE Raise("TransportError")
       ELSE Raise("struct.error") /\ calls' = calls /\ now' = now
    /\ UNCHANGED <<return_value, owf_serial, device, reset, it, addr,
                   timeout, read_byte, logger, status, ret, prev, poll>>

(***************************************************************************)
(* wait_poll_eeprom(spi_interface, 0xFF, addr), lines 50-65                *)
(***************************************************************************)
\* lines 52-55
PollEntry ==
    /\ pc = "poll_entry"
    /\ timeout' = now + PollTimeoutMs
    /\ poll' = [entry |-> now, checks |-> 0]
    /\ pc' = "poll_tx"
    /\ UNCHANGED <<return_value, owf_serial, device, reset, it, addr, now,
                   read_byte, calls, logger, status, exc, ret, prev>>

\* line 59
PollTransmit ==
    /\ pc = "poll_tx"
    /\ \E ok \in BOOLEAN :
          /\ Transmit(ReadFrame(addr), ok)
          /\ IF ok THEN pc' = "poll_rx" /\ exc' = exc
                   ELSE Raise("TransportError")
    /\ UNCHANGED <<return_value, owf_serial, device, reset, it, addr,
                   timeout, read_byte, logger, status, ret, prev, poll>>

\* mutation of PollReceive: a failed receive is swallowed inside the loop
PollReceive_SwallowsFailure ==
    /\ pc = "poll_rx"
    /\ \E ok \in BOOLEAN, b \in ReadBytes, d \in LatencyMs :
          /\ now' = now + d
          /\ IF ok
             THEN /\ calls' = Append(calls, Ev("receive", b, <<>>, TRUE))
                  /\ read_byte' = b
             ELSE /\ calls' = Append(calls, Ev("receive", -1, <<>>, FALSE))
                  /\ read_byte' = read_byte
          /\ pc' = "poll_cmp" /\ exc' = exc
    /\ UNCHANGED <<return_value, owf_serial, device, reset, it, addr,
                   timeout, logger, status, ret, prev, poll>>

\* line 61
PollReceive ==
    /\ pc = "poll_rx"
    /\ \E ok \in BOOLEAN, b \in ReadBytes, d \in LatencyMs :
          /\ now' = now + d
          /\ IF ok
             THEN /\ calls' = Append(calls, Ev("receive", b, <<>>, TRUE))
                  /\ read_byte' = b
                  /\ pc' = "poll_cmp" /\ exc' = exc
             ELSE /\ calls' = Append(calls, Ev("receive", -1, <<>>, FALSE))
                  /\ read_byte' = read_byte
                  /\ Raise("TransportError")
    /\ UNCHANGED <<return_value, owf_serial, device, reset, it, addr,
                   timeout, logger, status, ret, prev, poll>>

\* mutation of PollOutcome: the deadline is tested before the byte
PollOutcome_TimeoutFirst(rb, t, deadline) ==
    IF t > deadline
    THEN [next |-> "abort", checked |-> 1]
    ELSE IF rb = FillByte
         THEN [next |-> "loop", checked |-> 1]
         ELSE [next |-> "poll_tx", checked |-> 1]

\* mutation of PollOutcome: a timeout returns True instead of False
PollOutcome_TimeoutReturnsTrue(rb, t, deadline) ==
    IF rb = FillByte
    THEN [next |-> "loop", checked |-> 0]
    ELSE IF t > deadline
         THEN [next |-> "loop", checked |-> 1]
         ELSE [next |-> "poll_tx", checked |-> 1]

\* mutation of PollOutcome: the poll gives up when the deadline is reached
PollOutcome_AtDeadline(rb, t, deadline) ==
    IF rb = FillByte
    THEN [next |-> "loop", checked |-> 0]
    ELSE IF t >= deadline
         THEN [next |-> "abort", checked |-> 1]
         ELSE [next |-> "poll_tx", checked |-> 1]

\* lines 62-65: where the loop goes after a receive, and whether it has
\* evaluated `time.time() > timeout' on the way
PollOutcome(rb, t, deadline) ==
    IF rb = FillByte
    THEN [next |-> "loop", checked |-> 0]
    ELSE IF t > deadline
         THEN [next |-> "abort", checked |-> 1]
         ELSE [next |-> "poll_tx", checked |-> 1]

\* mutation of PollCompare: every mismatch moves the deadline
PollCompare_RearmsDeadline ==
    /\ pc = "poll_cmp"
    /\ pc' = PollOutcome(read_byte, now, timeout).next
    /\ poll' = [poll EXCEPT !.checks = @ + PollOutcome(read_byte, now, timeout).checked]
    /\ timeout' = IF read_byte = FillByte THEN timeout ELSE now + PollTimeoutMs
    /\ UNCHANGED <<return_value, owf_serial, device, reset, it, addr, now,
                   read_byte, calls, logger, status, exc, ret, prev>>

\* lines 62-65 and the test of line 86
PollCompare ==
    /\ pc = "poll_cmp"
    /\ pc' = PollOutcome(read_byte, now, timeout).next
    /\ poll' = [poll EXCEPT !.checks = @ + PollOutcome(read_byte, now, timeout).checked]
    /\ UNCHANGED <<return_value, owf_serial, device, reset, it, addr, now,
                   timeout, read_byte, calls, logger, status, exc, ret, prev>>

\* mutation of Abort: the failure is noted but the sweep goes on
Abort_Continues ==
    /\ pc = "abort"
    /\ logger' = Append(logger, Msg("ERROR", "took too long", addr))
    /\ status' = "False"
    /\ pc' = "loop"
    /\ UNCHANGED <<return_value, owf_serial, device, reset, it, addr, now,
                   timeout, read_byte, calls, exc, ret, prev, poll>>

\* mutation of Abort: the aborted sweep returns True
Abort_ReturnsTrue ==
    /\ pc = "abort"
    /\ logger' = Append(logger, Msg("ERROR", "took too long", addr))
    /\ status' = "True"
    /\ pc' = "return"
    /\ UNCHANGED <<return_value, owf_serial, device, reset, it, addr, now,
                   timeout, read_byte, calls, exc, ret, prev, poll>>

\* lines 87-89
Abort ==
    /\ pc = "abort"
    /\ logger' = Append(logger, Msg("ERROR", "took too long", addr))
    /\ status' = "False"
    /\ pc' = "return"
    /\ UNCHANGED <<return_value, owf_serial, device, reset, it, addr, now,
                   timeout, read_byte, calls, exc, ret, prev, poll>>

\* lines 92-94
Release ==
    /\ pc = "release"
    /\ \E ok \in BOOLEAN :
          /\ SetStatus(1, ok)
          /\ IF ok
             THEN /\ logger' = Append(logger, Msg("SUCCESS", "erased", -1))
                  /\ status' = "True"
                  /\ pc' = "return" /\ exc' = exc
             ELSE /\ logger' = logger
                  /\ status' = status
                  /\ Raise("TransportError")
    /\ UNCHANGED <<return_value, owf_serial, device, it, addr, now,
                   timeout, read_byte, ret, prev, poll>>

(***************************************************************************)
(* run(), lines 130-137                                                    *)
(***************************************************************************)
\* lines 131-133: process() returned
Return ==
    /\ pc = "return"
    /\ ret' = IF return_value THEN status ELSE "None"
    /\ pc' = "done"
    /\ UNCHANGED <<return_value, owf_serial, device, reset, it, addr, now,
                   timeout, read_byte, calls, logger, status, exc, prev, poll>>

\* lines 134-137: process() raised
Except ==
    /\ pc = "except"
    /\ logger' = Append(logger, Msg("ERROR", exc, -1))
    /\ ret' = "None"
    /\ pc' = "done"
    /\ UNCHANGED <<return_value, owf_serial, device, reset, it, addr, now,
                   timeout, read_byte, calls, status, exc, prev, poll>>

Next ==
    \/ Connect
    \/ GetDeviceId
    \/ Configure
    \/ Direction
    \/ SetIdle
    \/ DriveResetLow
    \/ EnableMemAccess
    \/ Settle
    \/ LoopNext
    \/ WriteByte
    \/ PollEntry
    \/ PollTransmit
    \/ PollReceive
    \/ PollCompare
    \/ Abort
    \/ Release
    \/ Return
    \/ Except

Spec == Init /\ [][Next]_vars

(***************************************************************************)
(* The end of the sweep of a wide device.  InitWide is the state erase()   *)
(* is in when its loop is about to take address WideStart, every earlier   *)
(* poll having matched; the call log keeps the session entry and the       *)
(* writes of the first and of the latest address and leaves out the        *)
(* addresses in between.                                                   *)
(***************************************************************************)
WideLog ==
    << Ev("configure", -1, <<>>, TRUE),
       Ev("direction", -1, <<>>, TRUE),
       Ev("status", 1, <<>>, TRUE),
       Ev("status", 0, <<>>, TRUE),
       Ev("transmit", -1, enable_mem_access_cmd, TRUE),
       Ev("sleep", SettleDelayMs, <<>>, TRUE),
       Ev("transmit", -1, WriteFrame(0), TRUE),
       Ev("transmit", -1, ReadFrame(0), TRUE),
       Ev("receive", FillByte, <<>>, TRUE),
       Ev("transmit", -1, WriteFrame(WideStart - 1), TRUE),
       Ev("transmit", -1, ReadFrame(WideStart - 1), TRUE),
       Ev("receive", FillByte, <<>>, TRUE) >>

InitWide ==
    /\ pc = "loop"
    /\ return_value \in BOOLEAN
    /\ owf_serial = TRUE
    /\ device \in {[found |-> TRUE, eeprom_size |-> s] : s \in WideSizes}
    /\ reset = 0
    /\ it = WideStart
    /\ addr = RangeItem(WideStart - 1)
    /\ now = 0
    /\ timeout = 0
    /\ read_byte = FillByte
    /\ calls = WideLog
    /\ logger = <<Msg("INFO", "enabling", -1), Msg("INFO", "erasing", -1)>>
    /\ status = "None"
    /\ exc = "none"
    /\ ret = "unset"
    /\ prev = [kind |-> "none", ret |-> "unset"]
    /\ poll = NoPoll

SpecWide == (Init \/ InitWide) /\ [][Next]_vars

\* the thread of run() keeps running: every transport call returns
SpecFair == Spec /\ WF_vars(Next)

(***************************************************************************)
(* Reading the call log                                                    *)
(***************************************************************************)
IsEnable(e) == e.op = "transmit" /\ e.frame = enable_mem_access_cmd

IsWrite(e) == e.op = "transmit" /\ Len(e.frame) = 4 /\ e.frame[1] = write_cmd

IsRead(e) == e.op = "transmit" /\ Len(e.frame) = 3 /\ e.frame[1] = read_cmd

IsProgFrame(e) == IsEnable(e) \/ IsWrite(e) \/ IsRead(e)

IsReceive(e) == e.op = "receive"

IsStatusOk(e) == e.op = "status" /\ e.ok

\* the address a write or read frame carries
FrameAddr(e) == e.frame[2] * 256 + e.frame[3]

\* addresses of the write frames, in the order transmitted
RECURSIVE AddrsOf(_)
AddrsOf(s) ==
    IF s = <<>> THEN <<>> ELSE <<FrameAddr(Head(s))>> \o AddrsOf(Tail(s))

WriteAddrs == AddrsOf(SelectSeq(calls, IsWrite))

NumReads == Len(SelectSeq(calls, IsRead))

NumEnables == Len(SelectSeq(calls, IsEnable))

\* <<0, 1, ..., n-1>>
Ascending(n) == [i \in 1..n |-> i - 1]

\* index of the call that asserted the reset line, 0 when there is none
AssertIdx ==
    IF \E i \in DOMAIN calls : IsStatusOk(calls[i]) /\ calls[i].val = 0
    THEN CHOOSE i \in DOMAIN calls : IsStatusOk(calls[i]) /\ calls[i].val = 0
    ELSE 0

\* index of the transmit of the programming-enable frame, 0 when there is none
EnableIdx ==
    IF \E i \in DOMAIN calls : IsEnable(calls[i])
    THEN CHOOSE i \in DOMAIN calls : IsEnable(calls[i])
    ELSE 0

\* index of the last settle delay, 0 when there is none
SleepIdx ==
    IF \E i \in DOMAIN calls : calls[i].op = "sleep"
    THEN CHOOSE i \in DOMAIN calls :
            /\ calls[i].op = "sleep"
            /\ \A j \in DOMAIN calls : calls[j].op = "sleep" => j <= i
    ELSE 0

\* indices of the calls that set the line to Deasserted after it was asserted
ReleaseIdxs ==
    {i \in DOMAIN calls : /\ AssertIdx > 0 /\ i > AssertIdx
                          /\ calls[i].op = "status" /\ calls[i].val = 1}

\* levels the line was driven to by the calls that succeeded, in order
RECURSIVE ValsOf(_)
ValsOf(s) == IF s = <<>> THEN <<>> ELSE <<Head(s).val>> \o ValsOf(Tail(s))

Levels == ValsOf(SelectSeq(calls, IsStatusOk))

\* a transmit or receive failed after the line was asserted
FailedAfterAssert ==
    /\ AssertIdx > 0
    /\ \E j \in DOMAIN calls :
          j > AssertIdx /\ ~calls[j].ok /\ calls[j].op \in {"transmit", "receive"}

(***************************************************************************)
(* Outcome of a run, and a second run() on the same module object          *)
(***************************************************************************)
\* what happened in the run that has ended
Kind ==
    IF ~owf_serial THEN "NotConnected"
    ELSE IF exc = "TransportError" THEN "TransportFailure"
    ELSE IF exc # "none" THEN "OtherError"
    ELSE IF ~device.found THEN "NoDeviceDetected"
    ELSE IF status = "False" THEN "AddressTimeout"
    ELSE "Success"

RunKinds == {"NoDeviceDetected", "AddressTimeout", "TransportFailure", "Success"}

\* the caller invokes run() again: the physical line keeps its level, the
\* locals of the new call start afresh (the clock is read from a new origin,
\* the code only uses differences of time.time())
Rerun ==
    /\ pc = "done"
    /\ prev.kind = "none"
    /\ prev' = [kind |-> Kind, ret |-> ret]
    /\ pc' = "run"
    /\ return_value' \in BOOLEAN
    /\ owf_serial' = FALSE
    /\ device' = NoDevice
    /\ it' = 0
    /\ addr' = 0
    /\ now' = 0
    /\ timeout' = 0
    /\ read_byte' = 0
    /\ calls' = <<>>
    /\ logger' = <<>>
    /\ status' = "None"
    /\ exc' = "none"
    /\ ret' = "unset"
    /\ poll' = NoPoll
    /\ UNCHANGED reset

NextRuns == Next \/ Rerun

SpecRuns == Init /\ [][NextRuns]_vars

(***************************************************************************)
(* Properties                                                              *)
(***************************************************************************)

\* C1: when a run in which the reset line was asserted terminates by
\* returning from erase() (all addresses confirmed, or the sweep aborted on a
\* poll timeout), the reset line is Deasserted (1).
C1_ResetReleasedOnExit ==
    (pc = "done" /\ AssertIdx > 0 /\ status \in {"True", "False"}) => reset = 1

\* C2: when a transmit or receive fails after the reset line was asserted,
\* the failed call is the last transport call of the run (nothing is
\* retried) and the reset line is Deasserted (1) when the run has terminated.
C2_ReleasedAfterTransportFailure ==
    (pc = "done" /\ FailedAfterAssert) =>
        (~calls[Len(calls)].ok /\ reset = 1)

\* C3: every step that transmits a programming-mode frame (programming
\* enable, EEPROM write, EEPROM read-back) is taken while the reset line is
\* Asserted (0), and leaves it Asserted.
C3_ProgFramesOnlyWhileAsserted ==
    [][(Len(calls') = Len(calls) + 1 /\ IsProgFrame(calls'[Len(calls')]))
          => (reset = 0 /\ reset' = 0)]_vars

\* a write and a read-back frame have been transmitted
C3_Witness ==
    /\ \E i \in DOMAIN calls : IsWrite(calls[i]) /\ calls[i].ok
    /\ \E i \in DOMAIN calls : IsRead(calls[i]) /\ calls[i].ok
    /\ reset = 0

\* C4: once get_device_id has returned no device, the run only returns: the
\* module has made no transport call at all (no programming enable, write or
\* read-back frame, no reset-line call) and has logged nothing.
C4_NoDeviceNoTransport ==
    (owf_serial /\ pc \notin {"run", "process"} /\ ~device.found) =>
        (calls = <<>> /\ pc \in {"return", "done"} /\ status = "None")

\* a run that found no device has ended
C4_Witness == pc = "done" /\ owf_serial /\ ~device.found /\ ret = "None"

\* C5: every write or read-back transmit and every receive comes after, in
\* this order, the call that asserted the reset line, the transmit of the
\* programming-enable frame and the settle delay; the programming-enable
\* frame is transmitted at most once, and exactly once before any write.
C5_SessionEntryOrdered ==
    LET a == AssertIdx
        e == EnableIdx
        d == SleepIdx
        n == NumEnables
    IN  /\ n <= 1
        /\ \A i \in DOMAIN calls :
              (IsWrite(calls[i]) \/ IsRead(calls[i]) \/ IsReceive(calls[i])) =>
                 /\ n = 1
                 /\ 0 < a /\ a < e
                 /\ calls[e].ok
                 /\ e < d /\ d < i
                 /\ calls[d].val = SettleDelayMs

\* the first write has been transmitted
C5_Witness == \E i \in DOMAIN calls : IsWrite(calls[i]) /\ FrameAddr(calls[i]) = 0

\* C6: a run that ended in success with eeprom_size > 0 has transmitted
\* exactly eeprom_size write frames, for the addresses 0, 1, ..,
\* eeprom_size-1 in this order, and at least eeprom_size read-back frames;
\* exactly eeprom_size of them when every received byte was the fill byte.
C6_SuccessSweepsEveryAddress ==
    (pc = "done" /\ status = "True" /\ RangeLen > 0) =>
        /\ WriteAddrs = Ascending(RangeLen)
        /\ NumReads >= RangeLen
        /\ (\A i \in DOMAIN calls : IsReceive(calls[i]) => calls[i].val = FillByte)
              => NumReads = RangeLen

\* a successful run over the largest EEPROM, with a poll that had to repeat
C6_Witness ==
    /\ pc = "done" /\ status = "True" /\ RangeLen = MaxSize /\ RangeLen > 1
    /\ NumReads > RangeLen

\* C7: once the poll of address addr has failed, nothing more is called: the
\* last call is the mismatching receive for addr, the write frames of the run
\* are those for 0..addr in order, and exactly addr polls were confirmed.
C7_AbortStopsSweep ==
    status = "False" =>
        /\ pc \in {"return", "done"}
        /\ WriteAddrs = Ascending(addr + 1)
        /\ IsReceive(calls[Len(calls)]) /\ calls[Len(calls)].val # FillByte
        /\ IsRead(calls[Len(calls) - 1]) /\ FrameAddr(calls[Len(calls) - 1]) = addr
        /\ Cardinality({i \in DOMAIN calls :
                           IsReceive(calls[i]) /\ calls[i].val = FillByte}) = addr
        /\ \A i \in DOMAIN calls :
              (IsWrite(calls[i]) \/ IsRead(calls[i])) => FrameAddr(calls[i]) <= addr

\* a sweep aborted at an address other than the first
C7_Witness == pc = "done" /\ status = "False" /\ addr > 0 /\ addr < RangeLen - 1

\* C8: in a run that ended in success the line, Deasserted when the session
\* begins, was driven Asserted and then Deasserted and nothing else; in a run
\* whose sweep aborted the line was driven Deasserted after it was asserted.
C8_TwoTransitions ==
    /\ (pc = "done" /\ status = "True") => Levels = <<1, 0, 1>>
    /\ (pc = "done" /\ status = "False") =>
          (Len(Levels) >= 3 /\ Levels[2] = 0 /\ Levels[3] = 1)

\* C9: in every run that has ended and in which the reset line was asserted,
\* the line was set to Deasserted exactly once after that.
C9_ReleaseExactlyOnce ==
    (pc = "done" /\ AssertIdx > 0) => Cardinality(ReleaseIdxs) = 1

\* C10: two runs that ended in different outcomes among NoDeviceDetected,
\* AddressTimeout, TransportFailure and Success returned different values to
\* the caller of run().
C10_OutcomesDistinguishable ==
    (pc = "done" /\ prev.kind \in RunKinds /\ Kind \in RunKinds /\ prev.kind # Kind)
        => prev.ret # ret

(***************************************************************************)
(* Reading the call log of the current poll                                *)
(***************************************************************************)
\* positions inside wait_poll_eeprom
PollPcs == {"poll_entry", "poll_tx", "poll_rx", "poll_cmp"}

\* index of the latest write frame, 0 when there is none
LastWriteIdx ==
    IF \E i \in DOMAIN calls : IsWrite(calls[i])
    THEN CHOOSE i \in DOMAIN calls :
            /\ IsWrite(calls[i])
            /\ \A j \in DOMAIN calls : IsWrite(calls[j]) => j <= i
    ELSE 0

\* read-back frames transmitted since the latest write
PollReads ==
    LET w == LastWriteIdx
    IN  Cardinality({i \in DOMAIN calls : i > w /\ IsRead(calls[i])})

NumWrites == Len(SelectSeq(calls, IsWrite))

\* receives that returned the fill byte
NumConfirmed ==
    Cardinality({i \in DOMAIN calls : IsReceive(calls[i]) /\ calls[i].val = FillByte})

\* every address of [0, eeprom_size) was written, in order, and confirmed
AllConfirmed ==
    /\ device.found
    /\ NumWrites = RangeLen
    /\ NumConfirmed = RangeLen
    /\ WriteAddrs = Ascending(RangeLen)

\* C11 as claimed: in a run that has ended, process() returned True if and
\* only if every address of [0, eeprom_size) was written and confirmed.
C11_SuccessIffAllConfirmed_Claimed ==
    (pc = "done" /\ device.found) => (status = "True" <=> AllConfirmed)

\* C11, amended: in a run that has ended, process() returned True only if
\* every address of [0, eeprom_size) was written and confirmed; it did not
\* return False if they all were; and if they all were and no transport call
\* of the run raised, it returned True.
C11_SuccessIffAllConfirmed ==
    (pc = "done" /\ device.found) =>
        /\ status = "True" => AllConfirmed
        /\ AllConfirmed => status # "False"
        /\ (AllConfirmed /\ exc = "none") => status = "True"
        /\ status = "False" => NumConfirmed < NumWrites

\* a run over more than one address returned True to its caller
C11_Witness ==
    pc = "done" /\ AllConfirmed /\ RangeLen > 1 /\ status = "True" /\ ret = "True"

\* C12: a received byte equal to the expected byte makes wait_poll_eeprom
\* return True without evaluating the deadline at that iteration, whatever
\* the clock shows; after a first read that matches, the deadline has been
\* evaluated zero times.
C12_MatchBeforeDeadline ==
    [][(pc = "poll_cmp" /\ read_byte = FillByte) =>
          /\ pc' = "loop"
          /\ poll' = poll
          /\ PollReads >= 1
          /\ (PollReads = 1 => poll.checks = 0)]_vars

\* a poll returned True on a read that came back after the deadline
C12_Witness ==
    /\ pc = "loop" /\ it > 0 /\ read_byte = FillByte
    /\ now > timeout /\ poll.checks >= 1

\* C13: every call of wait_poll_eeprom ends: it returns False (the deadline
\* has passed without a match), or it returns True on a matching byte, or a
\* transport call raises.
C13_PollTerminates ==
    (pc = "poll_entry") ~>
        (pc \in {"abort", "except"} \/ (pc = "loop" /\ read_byte = FillByte))

\* a poll whose reads never matched has returned False after several reads
C13_Witness == pc = "abort" /\ PollReads >= 2 /\ now > timeout

\* C14: a step of wait_poll_eeprom leaves the reset line alone, leaves the
\* deadline at entry time + 10 s once it is set, and calls nothing but the
\* transmit of the read-back frame of the polled address and the receive
\* that follows it.
C14_PollOnlyReads ==
    [][(pc \in PollPcs) =>
          /\ reset' = reset
          /\ (pc # "poll_entry" =>
                 timeout' = timeout /\ timeout = poll.entry + PollTimeoutMs)
          /\ (calls' # calls =>
                 /\ Len(calls') = Len(calls) + 1
                 /\ SubSeq(calls', 1, Len(calls)) = calls
                 /\ \/ /\ pc = "poll_tx"
                       /\ calls'[Len(calls')].op = "transmit"
                       /\ calls'[Len(calls')].frame = <<read_cmd>> \o PackH(addr)
                    \/ /\ pc = "poll_rx"
                       /\ calls'[Len(calls')].op = "receive"
                       /\ IsRead(calls[Len(calls)]))]_vars

\* a second iteration of a poll starts with the deadline of the entry
C14_Witness ==
    /\ pc = "poll_tx" /\ poll.checks >= 1 /\ now > poll.entry
    /\ timeout = poll.entry + PollTimeoutMs /\ reset = 0

\* C15 as claimed: wait_poll_eeprom is only left by returning True or False.
C15_PollNeverRaises ==
    [][(pc \in PollPcs) => pc' \in PollPcs \cup {"loop", "abort"}]_vars

\* C15, amended: wait_poll_eeprom is left by returning True or False, or by
\* the exception of a transmit or receive that failed inside the loop, and
\* by that exception exactly when such a call failed.
C15_PollReturnsOrPropagates ==
    [][(pc \in PollPcs) =>
          /\ pc' \in PollPcs \cup {"loop", "abort", "except"}
          /\ (pc' = "except" <=>
                 (Len(calls') = Len(calls) + 1 /\ ~calls'[Len(calls')].ok))
          /\ (pc' = "except" => exc' = "TransportError")]_vars

\* a receive failed inside the polling loop and the exception reached run()
C15_Witness ==
    /\ pc = "except" /\ exc = "TransportError"
    /\ IsReceive(calls[Len(calls)]) /\ ~calls[Len(calls)].ok

\* C16: every read-back frame directly follows the write frame of the same
\* address or a mismatching receive of a read-back of the same address; a
\* write that succeeded is followed by a read-back, a receive other than
\* 0xFF by another read-back; the write of address a+1 directly follows a
\* receive of 0xFF for a read-back of address a.
C16_WritePollPaired ==
    \A i \in DOMAIN calls :
       /\ IsRead(calls[i]) =>
             /\ i > 1
             /\ \/ /\ IsWrite(calls[i - 1]) /\ calls[i - 1].ok
                   /\ FrameAddr(calls[i - 1]) = FrameAddr(calls[i])
                \/ /\ i > 2
                   /\ IsReceive(calls[i - 1]) /\ calls[i - 1].ok
                   /\ calls[i - 1].val # FillByte
                   /\ IsRead(calls[i - 2])
                   /\ FrameAddr(calls[i - 2]) = FrameAddr(calls[i])
       /\ (IsWrite(calls[i]) /\ FrameAddr(calls[i]) > 0) =>
             /\ i > 2
             /\ IsReceive(calls[i - 1]) /\ calls[i - 1].val = FillByte
             /\ IsRead(calls[i - 2])
             /\ FrameAddr(calls[i - 2]) = FrameAddr(calls[i]) - 1
       /\ (i < Len(calls) /\ IsWrite(calls[i])) => IsRead(calls[i + 1])
       /\ (i < Len(calls) /\ IsReceive(calls[i]) /\ calls[i].val # FillByte)
             => IsRead(calls[i + 1])
       /\ (i < Len(calls) /\ IsReceive(calls[i]) /\ calls[i].val = FillByte)
             => ~IsRead(calls[i + 1])

\* the second address is being written after a poll that had to repeat
C16_Witness ==
    /\ \E i \in DOMAIN calls : IsWrite(calls[i]) /\ FrameAddr(calls[i]) = 1
    /\ NumReads >= 3 /\ pc = "poll_cmp"

\* C17: wait_poll_eeprom returns False only from the comparison that follows
\* a receive, when the received byte differs from the expected byte and the
\* clock is strictly past entry time + 10 s; a mismatch while the clock is
\* not past it leads to another read-back.
C17_FailureOnlyPastDeadline ==
    [][/\ (pc' = "abort" /\ pc # "abort") =>
             /\ pc = "poll_cmp"
             /\ now > poll.entry + PollTimeoutMs
             /\ read_byte # FillByte
             /\ PollReads >= 1
             /\ IsReceive(calls[Len(calls)])
       /\ (pc = "poll_cmp" /\ read_byte # FillByte
              /\ now <= poll.entry + PollTimeoutMs) => pc' = "poll_tx"]_vars

\* a mismatch exactly at the deadline was followed by another read-back
C17_Witness ==
    /\ pc = "poll_rx" /\ poll.checks >= 1
    /\ \E d \in LatencyMs : now = poll.entry + PollTimeoutMs + d

\* C18: for a device whose eeprom_size exceeds 65536 no write frame is
\* transmitted.
C18_OversizeRejected ==
    (device.found /\ RangeLen > MaxH + 1) => NumWrites = 0

\* the call a step has added to the log is not a second write frame for an
\* address, nor a second programming-enable frame
NoRepeat(old, new) ==
    Len(new) = Len(old) + 1 =>
        LET e == new[Len(new)]
        IN  /\ IsWrite(e) =>
                  \A i \in DOMAIN old :
                     IsWrite(old[i]) => FrameAddr(old[i]) # FrameAddr(e)
            /\ IsEnable(e) => \A i \in DOMAIN old : ~IsEnable(old[i])

\* C19: no step transmits a write frame for an address that already has one,
\* nor a second programming-enable frame; an address beyond 65535 is not
\* written at all (the step raises and transmits nothing); and once
\* process() has returned or raised, no call is made.
C19_NothingRetried ==
    [][/\ NoRepeat(calls, calls')
       /\ (pc = "write" /\ addr > MaxH) => (pc' = "except" /\ calls' = calls)
       /\ (pc \in {"return", "except", "done"}) => calls' = calls]_vars

\* the sweep of a device of more than 65536 bytes ended at address 65536
C19_Witness == pc = "done" /\ exc = "struct.error" /\ addr = MaxH + 1

\* the calls of a run over an empty EEPROM in which no call raised
EmptySweepLog ==
    << Ev("configure", -1, <<>>, TRUE),
       Ev("direction", -1, <<>>, TRUE),
       Ev("status", 1, <<>>, TRUE),
       Ev("status", 0, <<>>, TRUE),
       Ev("transmit", -1, enable_mem_access_cmd, TRUE),
       Ev("sleep", SettleDelayMs, <<>>, TRUE),
       Ev("status", 1, <<>>, TRUE) >>

====
